---- MODULE Spec2Model ----
(***************************************************************************)
(* Model of the query rewriting core of qserv's master:                    *)
(*   src/python/lsst/qserv/master/sqlparser.py  (Grammar, QueryMunger).    *)
(*                                                                         *)
(* Representation.                                                         *)
(*  - A token is a sequence of identifier parts: pyparsing's               *)
(*    delimitedList(ident, ".", combine=True) glues the parts with ".",    *)
(*    so "Object.ra" is <<"Object", "ra">> and "ra" is <<"ra">>.  Every    *)
(*    other token (keyword, operator, number) is a one-part sequence.      *)
(*  - A statement is what the grammar can recognise: a select list, a      *)
(*    table list and a where-expression (a list cond kw cond kw ... cond). *)
(*  - An element of a where-expression token list is a record ("item"):    *)
(*      k = "leaf"  : the Group produced by whereConditionFlat, toks are   *)
(*                    its tokens;                                          *)
(*      k = "insub" : the leaf  col IN ( selectStmt ) , toks are the flat  *)
(*                    tokens up to "from", tabs/sub the nested table list  *)
(*                    and where-expression (nested ParseResults);          *)
(*      k = "true"  : the Group ["TRUE"] left behind by onlyStatic;        *)
(*      k = "paren" : the Group  "(" whereExpression ")" , sub its items;  *)
(*      k = "kw"    : the bare keyword string "and" / "or".                *)
(*  - _flatten's " ".join is modelled by the sequence of the tokens it     *)
(*    joins, "\n".join by the sequence of lines.                           *)
(***************************************************************************)
EXTENDS Integers, Sequences, FiniteSets, TLC

VARIABLES original, keepsEmpty, lastOp, chunk, sublist, result, grammar, history,
          chunktuples, d, condList, reduced, passes, betweenToks, clause

\* One QueryMunger: its query, the last call with its arguments and return
\* value, and the Grammar that call built (the local g of the method).
mungerVars == <<original, keepsEmpty, lastOp, chunk, sublist, result, grammar>>

\* collectSubChunkTuples: argument and returned dictionary.
collectVars == <<chunktuples, d>>

\* scWhere as a function: argument, return value, number of applications.
reduceVars == <<condList, reduced, passes>>

\* convertBetween as a function: argument and returned clause.
betweenVars == <<betweenToks, clause>>

vars == <<mungerVars, history, collectVars, reduceVars, betweenVars>>

-----------------------------------------------------------------------------
(* Bounds of the model.                                                    *)

MaxConds == 4

MaxParenConds == 2

MaxTables == 2

MaxSub == 2

MaxTuples == 3

MaxCalls == 2

MaxVal == 3

-----------------------------------------------------------------------------
(* Strings and tokens.                                                     *)

\* str.upper() on the identifier parts the model uses.
Upper(s) ==
  CASE s = "ra" -> "RA"
    [] s = "decl" -> "DECL"
    [] s = "Decl" -> "DECL"
    [] s = "blah" -> "BLAH"
    [] s = "foo" -> "FOO"
    [] s = "id" -> "ID"
    [] s = "o1" -> "O1"
    [] s = "Object" -> "OBJECT"
    [] s = "object" -> "OBJECT"
    [] s = "Source" -> "SOURCE"
    [] s = "and" -> "AND"
    [] s = "or" -> "OR"
    [] s = "in" -> "IN"
    [] s = "between" -> "BETWEEN"
    [] s = "select" -> "SELECT"
    [] s = "from" -> "FROM"
    [] s = "where" -> "WHERE"
    [] s = "as" -> "AS"
    [] s = "flux$g" -> "FLUX$G"
    [] OTHER -> s

\* token.upper() of a (dot-combined) token.
TokUpper(t) == [i \in 1..Len(t) |-> Upper(t[i])]

Tok(s) == <<s>>

\* Sequence helpers.
RECURSIVE Concat(_)
Concat(ss) == IF ss = <<>> THEN <<>> ELSE Head(ss) \o Concat(Tail(ss))

SeqsUpTo(S, n) == UNION {[1..m -> S] : m \in 0..n}

NonEmptySeqsUpTo(S, n) == UNION {[1..m -> S] : m \in 1..n}

-----------------------------------------------------------------------------
(* Items of a where-expression token list.                                 *)

Leaf(toks) == [k |-> "leaf", toks |-> toks, tabs |-> <<>>, sub |-> <<>>]

InSub(toks, tabs, sub) == [k |-> "insub", toks |-> toks, tabs |-> tabs, sub |-> sub]

TrueItem == [k |-> "true", toks |-> <<Tok("TRUE")>>, tabs |-> <<>>, sub |-> <<>>]

Paren(sub) == [k |-> "paren", toks |-> <<>>, tabs |-> <<>>, sub |-> sub]

Kw(s) == [k |-> "kw", toks |-> <<Tok(s)>>, tabs |-> <<>>, sub |-> <<>>]

TableRef(name, alias) == [name |-> name, alias |-> alias]

NoErr == ""

-----------------------------------------------------------------------------
(* Grammar: the reduction parse actions.                                   *)

\* str(tok[i]) in ["TRUE", str(["TRUE"])]
IsTrueTok(item) == item.k = "true"

\* A reducer that takes either keyword for AND.
IsAnyKeywordTok(item) == item.k = "kw"

\* str(tok[j]).upper() == "AND"
IsAndTok(item) == item.k = "kw" /\ TokUpper(item.toks[1]) = Tok("AND")

\* str(tok[j]).upper() == "OR"
IsOrTok(item) == item.k = "kw" /\ TokUpper(item.toks[1]) = Tok("OR")

\* The while loop of scWhere; i is the 1-based position (Python i + 1), so
\* Python's tok[i+1] is tok[i + 1] here and Python's tok[i+i] is tok[2*i - 1].
RECURSIVE scWhereLoop(_, _, _)
scWhereLoop(tok, i, newtok) ==
  IF i > Len(tok) THEN [err |-> NoErr, out |-> newtok]
  ELSE IF IsTrueTok(tok[i]) /\ i < Len(tok)
       THEN IF IsAndTok(tok[i + 1])
            THEN scWhereLoop(tok, i + 2, newtok)
            ELSE IF 2 * i - 1 > Len(tok)
                 THEN [err |-> "IndexError", out |-> <<>>]
                 ELSE IF IsOrTok(tok[2 * i - 1])
                      THEN [err |-> NoErr, out |-> newtok]
                      ELSE scWhereLoop(tok, i + 1, Append(newtok, tok[i]))
       ELSE scWhereLoop(tok, i + 1, Append(newtok, tok[i]))

scWhere(tok) == scWhereLoop(tok, 1, <<>>)

\* What pyparsing does with the value a parse action returns: a non-empty
\* list replaces the tokens.  An empty list is falsy; pyparsing 1.5 tests
\* "if tokens:" and keeps the matched tokens, later releases test
\* "is not None" and replace them by the empty list.  keeps selects which.
ActionResult(matched, returned, keeps) ==
  IF returned = <<>> /\ keeps THEN matched ELSE returned

\* collapseWhere on the Group ["where", cond, ...]: items are the tokens
\* after the "where" keyword, so tok.asList()[0][1] is items[1].
collapseWhere(items) ==
  IF IsTrueTok(items[1]) THEN <<>> ELSE <<Kw("where")>> \o items

-----------------------------------------------------------------------------
(* Grammar: parse-action hooks and the recogniser.                         *)

\* computePartMapQuery: pVariables = set(["RA", "DECL"])
pVariables == {Tok("RA"), Tok("DECL")}

\* onlyStatic.partMapCares
partMapCares(token) == TokUpper(token) \in pVariables

\* onlyStatic: filter(partMapCares, condition) runs over every element of
\* the leaf.  For  col IN ( selectStmt )  the elements include the nested
\* table-list and where groups, which have no upper(): TypeError.
onlyStatic(item) ==
  IF item.k = "insub"
  THEN [err |-> "TypeError", item |-> item]
  ELSE IF \E i \in 1..Len(item.toks) : partMapCares(item.toks[i])
       THEN [err |-> NoErr, item |-> item]
       ELSE [err |-> NoErr, item |-> TrueItem]

\* computeChunkQuery.replaceObj on one table-name token.
TemplateTok == <<"Subchunks_${subc}", "Object_${chunk}_${subc}">>

replaceObj(token) ==
  IF TokUpper(token) = Tok("OBJECT") THEN TemplateTok ELSE token

\* Grammar.actionWrapper over self.whereExpAction.
RECURSIVE whereExpActionWrapper(_, _)
whereExpActionWrapper(aList, item) ==
  IF aList = <<>> THEN [err |-> NoErr, item |-> item]
  ELSE LET r == IF Head(aList) = "onlyStatic" THEN onlyStatic(item)
                ELSE [err |-> NoErr, item |-> item]
       IN IF r.err # NoErr THEN r ELSE whereExpActionWrapper(Tail(aList), r.item)

\* Grammar.actionWrapper over self.tableAction.
RECURSIVE tableActionWrapper(_, _)
tableActionWrapper(aList, token) ==
  IF aList = <<>> THEN token
  ELSE tableActionWrapper(Tail(aList),
         IF Head(aList) = "replaceObj" THEN replaceObj(token) ELSE token)

\* tableNameList: the table action runs on every table name, aliased or not.
tableNameList(tabs, g) ==
  [i \in 1..Len(tabs) |->
     TableRef(tableActionWrapper(g.tableAction, tabs[i].name), tabs[i].alias)]

\* A fresh Grammar(): both hook lists empty.
Grammar == [tableAction |-> <<>>, whereExpAction |-> <<>>]

RECURSIVE whereExpression(_, _, _)
RECURSIVE whereCondition(_, _, _)
RECURSIVE whereClause(_, _, _)

\* The Group of a parenthesised expression r.
parenGroup(r) == [err |-> r.err, item |-> Paren(r.out)]

\* The Group of  col IN ( selectStmt )  with where clause w, and its hooks.
inSubGroup(item, g, w) ==
  IF w.err # NoErr THEN [err |-> w.err, item |-> item]
  ELSE whereExpActionWrapper(g.whereExpAction,
         InSub(item.toks, tableNameList(item.tabs, g), w.out))

\* whereCondition = Group(whereConditionFlat | "(" whereExpression ")")
whereCondition(item, g, keeps) ==
  CASE item.k = "paren" -> parenGroup(whereExpression(item.sub, g, keeps))
    [] item.k = "insub" -> inSubGroup(item, g, whereClause(item.sub, g, keeps))
    [] OTHER -> whereExpActionWrapper(g.whereExpAction, item)

\* The parse action scWhere has returned r for the matched tokens tok.
scWhereAction(tok, r, keeps) ==
  IF r.err # NoErr THEN [err |-> r.err, out |-> <<>>]
  ELSE [err |-> NoErr, out |-> ActionResult(tok, r.out, keeps)]

\* The tokens whereExpression matched: condition c, then keyword kw and the
\* tail t when there is a tail.
whereExpTokens(c, kw, t, keeps) ==
  IF c.err # NoErr THEN [err |-> c.err, out |-> <<>>]
  ELSE IF t.err # NoErr THEN [err |-> t.err, out |-> <<>>]
  ELSE scWhereAction(<<c.item>> \o kw \o t.out, scWhere(<<c.item>> \o kw \o t.out), keeps)

\* whereExpression << whereCondition + ZeroOrMore(andExpr | orExpr), with
\* andExpr = and_ + whereExpression: right recursive, ungrouped, so scWhere
\* runs on   cond kw <already reduced tail>   at every suffix.
whereExpression(items, g, keeps) ==
  IF Len(items) = 1
  THEN whereExpTokens(whereCondition(items[1], g, keeps), <<>>,
                      [err |-> NoErr, out |-> <<>>], keeps)
  ELSE whereExpTokens(whereCondition(items[1], g, keeps), <<items[2]>>,
                      whereExpression(SubSeq(items, 3, Len(items)), g, keeps), keeps)

\* collapseWhere as the parse action of the Group of "where" and expression r.
whereGroup(r, keeps) ==
  IF r.err # NoErr THEN r
  ELSE [err |-> NoErr,
        out |-> ActionResult(<<Kw("where")>> \o r.out, collapseWhere(r.out), keeps)]

\* whereClause = Group(whereToken + whereExpression) with collapseWhere.
whereClause(items, g, keeps) == whereGroup(whereExpression(items, g, keeps), keeps)

\* selectStmt: select list, table list with its hooks, where clause w.
selectStmt(stmt, g, w) ==
  IF w.err # NoErr
  THEN [err |-> w.err, sel |-> <<>>, tabs |-> <<>>, where |-> <<>>]
  ELSE [err |-> NoErr, sel |-> stmt.sel,
        tabs |-> tableNameList(stmt.tabs, g), where |-> w.out]

\* simpleSQL = selectStmt + semicolon, where selectStmt requires whereClause.
simpleSQL(stmt, g, keeps) ==
  IF ~stmt.hasWhere
  THEN [err |-> "ParseException", sel |-> <<>>, tabs |-> <<>>, where |-> <<>>]
  ELSE selectStmt(stmt, g, whereClause(stmt.where, g, keeps))

-----------------------------------------------------------------------------
(* QueryMunger.                                                            *)

flattenTabs(tabs) ==
  Concat([i \in 1..Len(tabs) |->
            IF tabs[i].alias = <<>> THEN <<tabs[i].name>>
            ELSE <<tabs[i].name, Tok("as"), tabs[i].alias>>])

\* QueryMunger._flatten on a list of where items.
RECURSIVE flattenItems(_)
flattenItems(items) ==
  Concat([i \in 1..Len(items) |->
            CASE items[i].k = "paren" ->
                   <<Tok("(")>> \o flattenItems(items[i].sub) \o <<Tok(")")>>
              [] items[i].k = "insub" ->
                   items[i].toks \o flattenTabs(items[i].tabs)
                     \o flattenItems(items[i].sub) \o <<Tok(")")>>
              [] OTHER -> items[i].toks])

\* QueryMunger._flatten on the whole parse result (delimitedList drops the
\* commas; the ";" literal is kept).
flatten(t) ==
  <<Tok("select")>> \o t.sel \o <<Tok("from")>> \o flattenTabs(t.tabs)
    \o flattenItems(t.where) \o <<Tok(";")>>

\* QueryMunger.convertBetween on the tokens  col between cmin and cmax.
convertBetweenSwapped(tokList) ==
  LET col == tokList[1][1]
      cmin == tokList[3]
      cmax == tokList[5]
      colmin == Tok(col \o "min")
      colmax == Tok(col \o "max")
  IN <<Tok("("), cmin, Tok("between"), colmin, Tok("and"), colmax,
       Tok("OR"), cmax, Tok("between"), colmin, Tok("and"), colmax,
       Tok("OR"), colmin, Tok("between"), cmax, Tok("and"), cmin, Tok(")")>>

convertBetween(tokList) ==
  LET col == tokList[1][1]
      cmin == tokList[3]
      cmax == tokList[5]
      colmin == Tok(col \o "min")
      colmax == Tok(col \o "max")
  IN <<Tok("("), cmin, Tok("between"), colmin, Tok("and"), colmax,
       Tok("OR"), cmax, Tok("between"), colmin, Tok("and"), colmax,
       Tok("OR"), colmin, Tok("between"), cmin, Tok("and"), cmax, Tok(")")>>

\* A Grammar that is the previous one instead of a new object.
sharedGrammar(prev) == prev

\* g = Grammar(): __init__ binds new empty hook lists to the new object, so
\* nothing of a Grammar built by an earlier call is in it.
newGrammar(prev) == Grammar

\* g.whereExpAction.append(onlyStatic)
partMapGrammar(g0) == [g0 EXCEPT !.whereExpAction = Append(@, "onlyStatic")]

\* g.tableAction.append(replaceObj)
chunkGrammar(g0) == [g0 EXCEPT !.tableAction = Append(@, "replaceObj")]

\* pquery = "SELECT chunkid,subchunkid FROM partmap %s;" % flatWhere
pquery(t) ==
  IF t.err # NoErr THEN [err |-> t.err, lines |-> <<>>, where |-> <<>>]
  ELSE [err |-> NoErr,
        lines |-> << <<Tok("SELECT"), Tok("chunkid,subchunkid"), Tok("FROM"),
                      Tok("partmap")>> \o flattenItems(t.where) \o <<Tok(";")>> >>,
        where |-> t.where]

\* QueryMunger.computePartMapQuery after its Grammar gg is set up.
partMapQueryIn(gg, query, keeps) == pquery(simpleSQL(query, gg, keeps))

\* QueryMunger.computePartMapQuery: only onlyStatic is installed.
computePartMapQuery(query, keeps) ==
  partMapQueryIn(partMapGrammar(Grammar), query, keeps)

\* string.Template.substitute on one identifier part.
substitutePart(p, c, s) ==
  CASE p = "Subchunks_${subc}" -> "Subchunks_" \o ToString(s)
    [] p = "Object_${chunk}_${subc}" -> "Object_" \o ToString(c) \o "_" \o ToString(s)
    [] OTHER -> p

\* Parts holding a "$" that names no key of the mapping: substitute raises.
BadPlaceholder(p) == p \in {"flux$g"}

substitute(line, c, s) ==
  [i \in 1..Len(line) |-> [j \in 1..Len(line[i]) |-> substitutePart(line[i][j], c, s)]]

HasBadPlaceholder(line) ==
  \E i \in 1..Len(line) : \E j \in 1..Len(line[i]) : BadPlaceholder(line[i][j])

\* header and chunkqueries; substitute raises on an unknown placeholder.
chunkqueries(querytemplate, c, sl) ==
  IF sl # <<>> /\ HasBadPlaceholder(querytemplate)
  THEN [err |-> "KeyError", lines |-> <<>>, where |-> <<>>]
  ELSE [err |-> NoErr,
        lines |-> << <<Tok("-- SUBCHUNKS:")>> \o [i \in 1..Len(sl) |-> Tok(ToString(sl[i]))] >>
                    \o [i \in 1..Len(sl) |-> substitute(querytemplate, c, sl[i])],
        where |-> <<>>]

\* querytemplate = string.Template(self._flatten(blah) + ";")
chunkTemplate(blah, c, sl) ==
  IF blah.err # NoErr THEN [err |-> blah.err, lines |-> <<>>, where |-> <<>>]
  ELSE chunkqueries(flatten(blah) \o <<Tok(";")>>, c, sl)

\* QueryMunger.computeChunkQuery after its Grammar gg is set up.
chunkQueryIn(gg, query, c, sl, keeps) == chunkTemplate(simpleSQL(query, gg, keeps), c, sl)

\* QueryMunger.computeChunkQuery: header, then one statement per subchunk.
computeChunkQuery(query, c, sl, keeps) ==
  chunkQueryIn(chunkGrammar(Grammar), query, c, sl, keeps)

\* A collector that puts the newest subchunk first.
prependSubchunk(cur, s) == <<s>> \o cur

\* d[chunk].append(subchunk)
appendSubchunk(cur, s) == Append(cur, s)

\* QueryMunger.collectSubChunkTuples: d = defaultdict(list); the for loop.
RECURSIVE collectLoop(_, _)
collectLoop(tuples, dd) ==
  IF tuples = <<>> THEN dd
  ELSE LET c == Head(tuples)[1]
           s == Head(tuples)[2]
           cur == IF c \in DOMAIN dd THEN dd[c] ELSE <<>>
       IN collectLoop(Tail(tuples),
            [k \in (DOMAIN dd) \cup {c} |-> IF k = c THEN appendSubchunk(cur, s) ELSE dd[k]])

collectSubChunkTuples(tuples) == collectLoop(tuples, <<>>)

-----------------------------------------------------------------------------
(* The statements the model feeds to QueryMunger.                          *)

And == Kw("and")

Or == Kw("or")

Keywords == {And, Or}

\* ra < 3 ,  decl > 4 ,  blah < 3
R == Leaf(<<Tok("ra"), Tok("<"), Tok("3")>>)

D == Leaf(<<Tok("decl"), Tok(">"), Tok("4")>>)

B == Leaf(<<Tok("blah"), Tok("<"), Tok("3")>>)

CoreLeaves == {R, B}

RaBetween == Leaf(<<Tok("ra"), Tok("between"), Tok("2"), Tok("and"), Tok("5")>>)

DeclBetween == Leaf(<<Tok("decl"), Tok("between"), Tok("1"), Tok("and"), Tok("10")>>)

BlahBetween == Leaf(<<Tok("blah"), Tok("between"), Tok("1"), Tok("and"), Tok("10")>>)

\* o1.ra < 3 ,  Object.ra < 3 ,  Decl > 4 ,  blah < ra
QualRa == Leaf(<<<<"o1", "ra">>, Tok("<"), Tok("3")>>)

ObjRa == Leaf(<<<<"Object", "ra">>, Tok("<"), Tok("3")>>)

MixedCaseDecl == Leaf(<<Tok("Decl"), Tok(">"), Tok("4")>>)

BlahCmpRa == Leaf(<<Tok("blah"), Tok("<"), Tok("ra")>>)

\* ra in (1, 2) ,  blah in (1, 2)
RaInList == Leaf(<<Tok("ra"), Tok("in"), Tok("("), Tok("1"), Tok("2"), Tok(")")>>)

BlahInList == Leaf(<<Tok("blah"), Tok("in"), Tok("("), Tok("1"), Tok("2"), Tok(")")>>)

\* ra in (select id from Object where ra < 3) , same with blah
SubSelect(col) ==
  InSub(<<Tok(col), Tok("in"), Tok("("), Tok("select"), Tok("id"), Tok("from")>>,
        <<TableRef(Tok("Object"), <<>>)>>, <<R>>)

RaInSub == SubSelect("ra")

BlahInSub == SubSelect("blah")

SpecialLeaves ==
  {D, RaBetween, DeclBetween, BlahBetween, QualRa, ObjRa, MixedCaseDecl, BlahCmpRa,
   RaInList, BlahInList, RaInSub, BlahInSub}

\* cond kw cond ... with exactly m conditions drawn from C.
RECURSIVE ExprsOfLen(_, _)
ExprsOfLen(C, m) ==
  IF m = 1 THEN {<<c>> : c \in C}
  ELSE {<<x[1], x[2]>> \o x[3] : x \in C \X Keywords \X ExprsOfLen(C, m - 1)}

Exprs(C, n) == UNION {ExprsOfLen(C, m) : m \in 1..n}

ParenConds == {Paren(e) : e \in Exprs(CoreLeaves, MaxParenConds)}

\* Expressions around one distinguished condition s.
Around(S, C) ==
  {<<s>> : s \in S}
    \cup {<<x[1], x[2], x[3]>> : x \in S \X Keywords \X C}
    \cup {<<x[3], x[2], x[1]>> : x \in S \X Keywords \X C}

WhereExprs ==
  Exprs(CoreLeaves, MaxConds)
    \cup Around(SpecialLeaves, CoreLeaves \cup {DeclBetween})
    \cup Around(ParenConds, CoreLeaves)

Stmt(sel, tabs, hasWhere, where) ==
  [sel |-> sel, tabs |-> tabs, hasWhere |-> hasWhere, where |-> where]

\* Object , LSST.Object , Source , object AS o1
TableRefs ==
  {TableRef(Tok("Object"), <<>>), TableRef(<<"LSST", "Object">>, <<>>),
   TableRef(Tok("Source"), <<>>), TableRef(Tok("object"), Tok("o1"))}

SelectLists == {<<Tok("*")>>, <<<<"Object", "ra">>>>, <<Tok("flux$g")>>}

\* SELECT id FROM Object WHERE <expr>;
WhereQueries ==
  {Stmt(<<Tok("id")>>, <<TableRef(Tok("Object"), <<>>)>>, TRUE, w) : w \in WhereExprs}

\* SELECT <list> FROM <tables> [WHERE ra < 3];
TableQueries ==
  {Stmt(x[1], x[2], x[3] # <<>>, x[3]) :
     x \in SelectLists \X NonEmptySeqsUpTo(TableRefs, MaxTables) \X {<<>>, <<R>>}}

Queries == WhereQueries \cup TableQueries

Chunks == {12}

Subchunks == {3, 7}

ChunkIds == {1, 2}

SubchunkIds == {4, 5, 9}

-----------------------------------------------------------------------------
(* The state machine: one QueryMunger and the calls made on it.            *)

NoResult == [err |-> NoErr, lines |-> <<>>, where |-> <<>>]

\* No call made yet on the munger built for query set Q.
InitMunger(Q) ==
  /\ original \in Q
  /\ keepsEmpty \in BOOLEAN
  /\ lastOp = "none"
  /\ chunk = 0
  /\ sublist = <<>>
  /\ result = NoResult
  /\ grammar = Grammar
  /\ history = <<>>

IdleCollect == chunktuples = <<>> /\ d = <<>>

IdleReduce == condList = <<>> /\ reduced = [err |-> NoErr, out |-> <<>>] /\ passes = 0

IdleBetween == betweenToks = <<>> /\ clause = <<>>

\* QueryMunger.__init__(query); the installed pyparsing fixes keepsEmpty.
Init == InitMunger(Queries) /\ IdleCollect /\ IdleReduce /\ IdleBetween

\* chunk and sublist hold the arguments of the call lastOp names.
PartMapCall ==
  LET gg == partMapGrammar(newGrammar(grammar))
  IN /\ lastOp' = "computePartMapQuery"
     /\ chunk' = 0
     /\ sublist' = <<>>
     /\ grammar' = gg
     /\ result' = partMapQueryIn(gg, original, keepsEmpty)
     /\ UNCHANGED <<original, keepsEmpty, collectVars, reduceVars, betweenVars>>

ChunkCall ==
  \E c \in Chunks : \E sl \in SeqsUpTo(Subchunks, MaxSub) :
    LET gg == chunkGrammar(newGrammar(grammar))
    IN /\ lastOp' = "computeChunkQuery"
       /\ chunk' = c
       /\ sublist' = sl
       /\ grammar' = gg
       /\ result' = chunkQueryIn(gg, original, c, sl, keepsEmpty)
       /\ UNCHANGED <<original, keepsEmpty, collectVars, reduceVars, betweenVars>>

ComputePartMapQuery == PartMapCall /\ UNCHANGED history

ComputeChunkQuery == ChunkCall /\ UNCHANGED history

CollectSubChunkTuples ==
  \E ts \in SeqsUpTo(ChunkIds \X SubchunkIds, MaxTuples) :
    /\ lastOp' = "collectSubChunkTuples"
    /\ chunktuples' = ts
    /\ d' = collectSubChunkTuples(ts)
    /\ UNCHANGED <<original, keepsEmpty, chunk, sublist, result, grammar, history,
                   reduceVars, betweenVars>>

Next == ComputePartMapQuery \/ ComputeChunkQuery

Spec == Init /\ [][Next]_vars

\* The collector on its own: it neither reads nor writes self.original.
InitCollect ==
  /\ original = Stmt(<<Tok("id")>>, <<TableRef(Tok("Object"), <<>>)>>, TRUE, <<R>>)
  /\ keepsEmpty \in BOOLEAN
  /\ lastOp = "none"
  /\ chunk = 0
  /\ sublist = <<>>
  /\ result = NoResult
  /\ grammar = Grammar
  /\ history = <<>>
  /\ IdleCollect /\ IdleReduce /\ IdleBetween

NextCollect == CollectSubChunkTuples

SpecCollect == InitCollect /\ [][NextCollect]_vars

\* The queries of the munger that is called several times: one or two
\* conditions of which one reduces to TRUE, and each table reference.
CallQueries ==
  {q \in WhereQueries : q.where \in {<<B>>, <<B, And, R>>, <<R, And, B>>, <<R, Or, B>>}}
    \cup {q \in TableQueries : q.sel = <<Tok("*")>> /\ Len(q.tabs) = 1}

\* QueryMunger.__init__(query) of a munger whose calls are recorded.
InitCalls == InitMunger(CallQueries) /\ IdleCollect /\ IdleReduce /\ IdleBetween

\* One more call on the same QueryMunger; history records the sequence.
CallPartMap ==
  /\ Len(history) < MaxCalls
  /\ PartMapCall
  /\ history' = Append(history, "computePartMapQuery")

CallChunk ==
  /\ Len(history) < MaxCalls
  /\ ChunkCall
  /\ history' = Append(history, "computeChunkQuery")

NextCalls == CallPartMap \/ CallChunk

SpecCalls == InitCalls /\ [][NextCalls]_vars

\* The conditions scWhere sees: a Group that onlyStatic turned into TRUE and
\* one it left alone.
ReducedConds == {TrueItem, R}

\* The token lists whereExpression hands to scWhere for n conditions: one
\* condition, or a condition and a keyword before the tail that the inner
\* whereExpression already reduced.
RECURSIVE ScWhereArgs(_)
ScWhereArgs(n) ==
  IF n = 1 THEN {<<c>> : c \in ReducedConds}
  ELSE {<<x[1], x[2]>> \o scWhere(x[3]).out :
          x \in ReducedConds \X Keywords
                  \X {t \in ScWhereArgs(n - 1) : scWhere(t).err = NoErr}}

\* scWhere on its own, called with a list the grammar can hand to it.
InitReduce ==
  /\ original = Stmt(<<Tok("id")>>, <<TableRef(Tok("Object"), <<>>)>>, TRUE, <<R>>)
  /\ keepsEmpty = FALSE
  /\ lastOp = "none"
  /\ chunk = 0
  /\ sublist = <<>>
  /\ result = NoResult
  /\ grammar = Grammar
  /\ history = <<>>
  /\ IdleCollect /\ IdleBetween
  /\ condList \in UNION {ScWhereArgs(n) : n \in 1..MaxConds}
  /\ reduced = [err |-> NoErr, out |-> <<>>]
  /\ passes = 0

\* newtok = scWhere(tok), first on the list and then on what it returned.
ApplyScWhere ==
  /\ passes < 2
  /\ passes = 1 => reduced.err = NoErr
  /\ LET arg == IF passes = 0 THEN condList ELSE reduced.out
     IN /\ condList' = arg
        /\ reduced' = scWhere(arg)
  /\ passes' = passes + 1
  /\ UNCHANGED <<mungerVars, history, collectVars, betweenVars>>

NextReduce == ApplyScWhere

SpecReduce == InitReduce /\ [][NextReduce]_vars

\* The integers a BETWEEN bound or a partition bound is drawn from.
Vals == (0 - MaxVal)..MaxVal

\* The token pyparsing holds for the integer n.
NumTok(n) == Tok(ToString(n))

\* The Group of  col BETWEEN lo AND hi , the argument of convertBetween.
BetweenGroup(col, lo, hi) ==
  <<Tok(col), Tok("between"), NumTok(lo), Tok("and"), NumTok(hi)>>

\* convertBetween on its own, called with a BETWEEN on a partitioning column.
InitBetween ==
  /\ original = Stmt(<<Tok("id")>>, <<TableRef(Tok("Object"), <<>>)>>, TRUE, <<R>>)
  /\ keepsEmpty = FALSE
  /\ lastOp = "none"
  /\ chunk = 0
  /\ sublist = <<>>
  /\ result = NoResult
  /\ grammar = Grammar
  /\ history = <<>>
  /\ IdleCollect /\ IdleReduce
  /\ betweenToks \in {BetweenGroup(col, x[1], x[2]) :
                        col \in {"ra", "decl"},
                        x \in {y \in Vals \X Vals : y[1] <= y[2]}}
  /\ clause = <<>>

ConvertBetween ==
  /\ clause = <<>>
  /\ clause' = convertBetween(betweenToks)
  /\ UNCHANGED <<mungerVars, history, collectVars, reduceVars, betweenToks>>

NextBetween == ConvertBetween

SpecBetween == InitBetween /\ [][NextBetween]_vars

-----------------------------------------------------------------------------
(* Vocabulary of the properties.                                           *)

\* The statement names the logical table Object in its FROM list.
ReferencesObject(stmt) ==
  \E i \in 1..Len(stmt.tabs) : TokUpper(stmt.tabs[i].name) = Tok("OBJECT")

\* A bare occurrence of Object: the table name itself or a qualifier prefix.
BareObject(token) == Upper(token[1]) = "OBJECT"

PhysicalName(c, s) ==
  <<"Subchunks_" \o ToString(s), "Object_" \o ToString(c) \o "_" \o ToString(s)>>

Returned(op) == lastOp = op /\ result.err = NoErr

\* The where-expression of the returned partition-map query (no keyword).
ReducedWhere == IF result.where = <<>> THEN <<>> ELSE Tail(result.where)

\* The column of a leaf with its qualifier prefix dropped, upper-cased.
LeafColumn(item) == Upper(item.toks[1][Len(item.toks[1])])

ColumnRelevant(item) == LeafColumn(item) \in {"RA", "DECL"}

IsLeaf(item) == item.k \in {"leaf", "insub"}

\* A leaf that the where-leaf hook of computePartMapQuery turns into TRUE.
ReducesToTrue(item) == item.k = "leaf" /\ onlyStatic(item).item = TrueItem

\* The statement without the where items at positions i and i + 1.
Without(stmt, i) ==
  [stmt EXCEPT !.where = SubSeq(@, 1, i - 1) \o SubSeq(@, i + 2, Len(@))]

RECURSIVE LeavesOf(_)
LeavesOf(items) ==
  UNION {CASE items[i].k = "paren" -> LeavesOf(items[i].sub)
           [] items[i].k = "kw" -> {}
           [] items[i].k = "true" -> {}
           [] OTHER -> {items[i]} : i \in 1..Len(items)}

\* Truth of a where-expression under a truth assignment a to its leaves,
\* AND and OR of equal precedence, left associative (the grammar's reading).
RECURSIVE EvalLeft(_, _)
EvalLeft(items, a) ==
  LET n == Len(items)
      last == items[n]
      v == CASE last.k = "true" -> TRUE
             [] last.k = "paren" -> EvalLeft(last.sub, a)
             [] OTHER -> a[last]
  IN IF n = 0 THEN TRUE
     ELSE IF n = 1 THEN v
     ELSE IF items[n - 1] = And THEN EvalLeft(SubSeq(items, 1, n - 2), a) /\ v
     ELSE EvalLeft(SubSeq(items, 1, n - 2), a) \/ v

\* The same with SQL's precedence, AND binding tighter than OR.
RECURSIVE EvalSql(_, _)
EvalSql(items, a) ==
  LET n == Len(items)
      Val(c) == CASE c.k = "true" -> TRUE
                  [] c.k = "paren" -> EvalSql(c.sub, a)
                  [] OTHER -> a[c]
      Ors == {0, n + 1} \cup {j \in 1..n : items[j] = Or}
  IN IF n = 0 THEN TRUE
     ELSE \E lo \in Ors : \E hi \in Ors :
            /\ lo < hi
            /\ \A j \in Ors : ~(lo < j /\ j < hi)
            /\ \A j \in (lo + 1)..(hi - 1) : (j - lo) % 2 = 1 => Val(items[j])

Assignments == [LeavesOf(original.where) -> BOOLEAN]

-----------------------------------------------------------------------------
(* Properties.                                                             *)

\* C1: for a statement that references Object, computeChunkQuery(c, [s1..sn])
\* returns a header line and exactly n statements, the k-th naming
\* Subchunks_<sk>.Object_<c>_<sk>, and no bare occurrence of Object (table
\* name or column qualifier) remains in any emitted statement.
C1_SubstitutionComplete ==
  (Returned("computeChunkQuery") /\ ReferencesObject(original)) =>
     /\ Len(result.lines) = 1 + Len(sublist)
     /\ \A k \in 1..Len(sublist) :
          LET line == result.lines[k + 1]
          IN /\ \E j \in 1..Len(line) : line[j] = PhysicalName(chunk, sublist[k])
             /\ \A j \in 1..Len(line) : ~BareObject(line[j])

\* C2: when no table-name token of the statement equals the logical table,
\* computeChunkQuery fails and emits no query.
C2_SubstitutionNotFound ==
  (lastOp = "computeChunkQuery" /\ ~ReferencesObject(original)) =>
     (result.err # NoErr /\ result.lines = <<>>)

\* C3: in the query returned by computePartMapQuery no  col BETWEEN lo AND hi
\* on a relevant column remains, and for
\* ra BETWEEN 2 AND 5 AND decl BETWEEN 1 AND 10  the where-clause is the
\* conjunction of the two 3-way expansions.
C3_BetweenExpanded ==
  Returned("computePartMapQuery") =>
     /\ \A leaf \in LeavesOf(ReducedWhere) :
          ~(leaf.k = "leaf" /\ TokUpper(leaf.toks[2]) = Tok("BETWEEN")
              /\ ColumnRelevant(leaf))
     /\ original.where = <<RaBetween, And, DeclBetween>> =>
          result.lines[1] =
            <<Tok("SELECT"), Tok("chunkid,subchunkid"), Tok("FROM"), Tok("partmap"),
              Tok("where")>> \o convertBetween(RaBetween.toks) \o <<Tok("and")>>
              \o convertBetween(DeclBetween.toks) \o <<Tok(";")>>

\* C4: soundness of the reduction: under every truth assignment to the
\* leaves, if the original where-expression is true then the where-clause of
\* the returned partition-map query is true (an omitted WHERE counts as
\* true), both read under the same precedence rule.
C4_ReductionSound ==
  Returned("computePartMapQuery") =>
     \A a \in Assignments :
        /\ EvalLeft(original.where, a) => EvalLeft(ReducedWhere, a)
        /\ EvalSql(original.where, a) => EvalSql(ReducedWhere, a)

\* C4 witness: a partition-map query whose where-clause lost a condition and
\* now selects strictly more than the original predicate.
C4_Witness ==
  /\ Returned("computePartMapQuery")
  /\ ReducedWhere # <<>>
  /\ Len(ReducedWhere) < Len(original.where)
  /\ \E a \in Assignments : ~EvalLeft(original.where, a) /\ EvalLeft(ReducedWhere, a)

\* C5: a flat leaf is replaced by TRUE if and only if its left-hand column,
\* qualifier ignored and compared case-insensitively, is not ra or decl.
C5_LeafRelevance ==
  (lastOp = "computePartMapQuery" /\ Len(original.where) = 1
     /\ IsLeaf(original.where[1])) =>
     /\ result.err = NoErr
     /\ (ReducedWhere = <<>> \/ ReducedWhere = <<TrueItem>>)
          <=> ~ColumnRelevant(original.where[1])

\* C6: left AND law: a condition reduced to TRUE and followed by AND is
\* dropped together with the AND, at every position, the rest being reduced
\* as it would be without them; WHERE blah < 3 AND decl > 4 gives exactly
\* decl > 4.
C6_LeftAndLaw ==
  lastOp = "computePartMapQuery" =>
     /\ \A i \in 1..(Len(original.where) - 1) :
          (ReducesToTrue(original.where[i]) /\ IsAndTok(original.where[i + 1])) =>
             result = computePartMapQuery(Without(original, i), keepsEmpty)
     /\ original.where = <<B, And, D>> => ReducedWhere = <<D>>

\* C7: the returned partition-map query never contains the token TRUE, and
\* has no WHERE clause when the whole expression reduces to TRUE.
C7_NeverRendersTrue ==
  Returned("computePartMapQuery") =>
     /\ \A j \in 1..Len(result.lines[1]) : result.lines[1][j] # Tok("TRUE")
     /\ (\A a \in Assignments : EvalLeft(ReducedWhere, a)) => result.where = <<>>

\* C8: collectSubChunkTuples returns a mapping whose keys are exactly the
\* chunk ids of the input and whose list for chunk c is the subsequence of
\* the subchunk ids paired with c, in input order.
C8_CollectGroups ==
  lastOp = "collectSubChunkTuples" =>
     /\ DOMAIN d = {chunktuples[i][1] : i \in 1..Len(chunktuples)}
     /\ \A c \in DOMAIN d :
          LET rows == SelectSeq(chunktuples, LAMBDA t : t[1] = c)
          IN d[c] = [i \in 1..Len(rows) |-> rows[i][2]]

\* C8 witness: [(1,4), (1,5), (2,9)] gives {1: [4,5], 2: [9]}.
C8_Witness ==
  /\ lastOp = "collectSubChunkTuples"
  /\ chunktuples = << <<1, 4>>, <<1, 5>>, <<2, 9>> >>
  /\ DOMAIN d = {1, 2}
  /\ d[1] = <<4, 5>>
  /\ d[2] = <<9>>

\* C9: a statement without a WHERE clause parses to completion: neither
\* computeChunkQuery nor computePartMapQuery ends in a syntax error.
C9_WhereOptional ==
  (lastOp \in {"computePartMapQuery", "computeChunkQuery"} /\ ~original.hasWhere) =>
     result.err # "ParseException"

\* C10: right AND law: a condition X followed by AND and a condition reduced
\* to TRUE yields X alone, also when the TRUE condition is the last one.
C10_RightAndLaw ==
  lastOp = "computePartMapQuery" =>
     \A i \in 2..(Len(original.where) - 1) :
        (IsAndTok(original.where[i]) /\ ReducesToTrue(original.where[i + 1])) =>
           result = computePartMapQuery(Without(original, i), keepsEmpty)

\* The statement with the disjunction around the OR at position i (its two
\* neighbouring conditions and the keyword) replaced by one condition that
\* reduces to TRUE.
DisjunctionAsTrue(stmt, i) ==
  [stmt EXCEPT !.where = SubSeq(@, 1, i - 2) \o <<B>> \o SubSeq(@, i + 2, Len(@))]

\* C11: OR law: when either operand of an OR reduced to TRUE, the whole
\* disjunction becomes TRUE: the query is the one obtained with a single
\* TRUE condition in its place, neither the other operand nor the OR kept.
C11_OrLaw ==
  lastOp = "computePartMapQuery" =>
     \A i \in 2..(Len(original.where) - 1) :
        (IsOrTok(original.where[i])
           /\ (ReducesToTrue(original.where[i - 1]) \/ ReducesToTrue(original.where[i + 1]))) =>
           result = computePartMapQuery(DisjunctionAsTrue(original, i), keepsEmpty)

\* C12: applying the condition-list reduction (scWhere) to a condition list
\* ends without error whatever the length of the list, and applying it to its
\* own result returns that result unchanged.
C12_ReductionIdempotent ==
  passes >= 1 =>
     /\ reduced.err = NoErr
     /\ passes = 2 => reduced.out = condList

\* The integer a number token stands for.
NumOf(t) == CHOOSE n \in Vals : NumTok(n) = t

\* The value of an operand of the expanded clause in a partition whose
\* column range is pmin..pmax.
OperandValue(t, col, pmin, pmax) ==
  IF t = Tok(col \o "min") THEN pmin
  ELSE IF t = Tok(col \o "max") THEN pmax
  ELSE NumOf(t)

\* The parenthesised disjunction of  x between a and b  groups, evaluated.
ClauseHolds(cl, col, pmin, pmax) ==
  /\ cl[1] = Tok("(") /\ cl[Len(cl)] = Tok(")")
  /\ \E p \in 2..(Len(cl) - 5) :
       /\ cl[p - 1] \in {Tok("("), Tok("OR")}
       /\ cl[p + 1] = Tok("between") /\ cl[p + 3] = Tok("and")
       /\ cl[p + 5] \in {Tok(")"), Tok("OR")}
       /\ OperandValue(cl[p + 2], col, pmin, pmax) <= OperandValue(cl[p], col, pmin, pmax)
       /\ OperandValue(cl[p], col, pmin, pmax) <= OperandValue(cl[p + 4], col, pmin, pmax)

\* C13: for integer bounds lo <= hi of the BETWEEN and pmin <= pmax of a
\* partition's column range, the three-way predicate convertBetween builds is
\* true exactly when the two closed ranges have a point in common.
C13_BetweenIntersects ==
  clause # <<>> =>
     LET col == betweenToks[1][1]
         lo == NumOf(betweenToks[3])
         hi == NumOf(betweenToks[5])
     IN \A pmin \in Vals : \A pmax \in pmin..MaxVal :
          ClauseHolds(clause, col, pmin, pmax)
             <=> (\E v \in Vals : lo <= v /\ v <= hi /\ pmin <= v /\ v <= pmax)

\* The expansion of a range that strictly contains the partition range 0..0:
\* neither bound lies in the partition, only the third test finds it.
C13_Witness ==
  /\ clause # <<>>
  /\ NumOf(betweenToks[3]) < 0
  /\ NumOf(betweenToks[5]) > 0
  /\ ClauseHolds(clause, betweenToks[1][1], 0, 0)

\* A table name as replaceObj or the substitution leaves it.
RewrittenName(token) ==
  \/ token = TemplateTok
  \/ \E c \in Chunks : \E sc \in Subchunks : token = PhysicalName(c, sc)

\* Some token of some returned line satisfies P.
SomeToken(P(_)) ==
  \E i \in 1..Len(result.lines) : \E j \in 1..Len(result.lines[i]) : P(result.lines[i][j])

IsLiteralTrue(token) == token = Tok("TRUE")

\* The last call behaved as the first call on a new QueryMunger for the
\* same query: same return value, only its own hook in its Grammar.
IsolatedCall ==
  /\ lastOp = "computePartMapQuery" =>
       /\ result = computePartMapQuery(original, keepsEmpty)
       /\ grammar.tableAction = <<>>
       /\ grammar.whereExpAction = <<"onlyStatic">>
       /\ ~SomeToken(RewrittenName)
  /\ lastOp = "computeChunkQuery" =>
       /\ result = computeChunkQuery(original, chunk, sublist, keepsEmpty)
       /\ grammar.tableAction = <<"replaceObj">>
       /\ grammar.whereExpAction = <<>>
       /\ ~SomeToken(IsLiteralTrue)

\* C14: every call of computePartMapQuery or computeChunkQuery, after any
\* sequence of such calls on the same QueryMunger, leaves the stored original
\* query unchanged and returns what a first call on a new QueryMunger would;
\* no hook of another call is in its Grammar, so a partition-map query has no
\* rewritten table name and a chunk query no TRUE-reduced condition.
C14_CallsIsolated == [][original' = original]_vars /\ []IsolatedCall

\* A chunk query computed after a partition-map query on the same munger,
\* for a query on Object with a condition the partition-map call reduced.
C14_Witness ==
  /\ history = <<"computePartMapQuery", "computeChunkQuery">>
  /\ Returned("computeChunkQuery")
  /\ sublist # <<>>
  /\ ReferencesObject(original)
  /\ \E i \in 1..Len(original.where) : ReducesToTrue(original.where[i])
  /\ SomeToken(RewrittenName)

====
